---- MODULE Spec2Model ----
(***************************************************************************)
(* Pallet account ledger (src/app.py): partners, accounts, entries and     *)
(* month closures, the balance calculator calculate_saldo_and_sums and the *)
(* write handlers new_entry, correction_entry, close_month, new_partner    *)
(* and delete_partner.                                                     *)
(*                                                                         *)
(* Time.  A datetime is an integer count of ticks since datetime.min       *)
(* (0001-01-01 00:00:00).  A second has TicksPerSecond ticks, so that the  *)
(* recording time carries a sub-second part as datetime.now() does; a day  *)
(* has SecondsPerDay seconds and a month DaysPerMonth days.  Strings that  *)
(* the code parses or searches (menge, kommentar) are sequences of         *)
(* one-character strings; a date string "YYYY-MM-DD" is the tuple          *)
(* <<y, m, d>> and the empty string is <<>>.                               *)
(***************************************************************************)
EXTENDS Integers, Sequences, FiniteSets, TLC

VARIABLES
    partners,       \* table partner: set of [id, name]
    accounts,       \* table account: set of [id, partner_id]
    entries,        \* table entry: set of Entry records
    closures,       \* table month_closure: set of MonthClosure records
    nextEntryId,    \* next primary key of table entry
    nextClosureId,  \* next primary key of table month_closure
    now,            \* the wall clock, datetime.now()
    inflight        \* per request thread: the row a handler is about to add

vars == <<partners, accounts, entries, closures, nextEntryId, nextClosureId, now, inflight>>

store == <<partners, accounts, entries, closures>>

----------------------------------------------------------------------------
(* Bounds of the model *)

MaxPartners == 2
MaxEntries == 2
MaxClosures == 2
ClockSpan == 1
TicksPerSecond == 2
SecondsPerDay == 1
DaysPerMonth == 2
MaxVouchers == 4
MaxKommentar == 5
MaxThreads == 2

(* Program constants *)

MonthsPerYear == 12
MinDigits == 4

TicksPerDay == SecondsPerDay * TicksPerSecond

Kinds == {"eup", "gb", "tmb1", "tmb2"}

Zero == [k \in Kinds |-> 0]

----------------------------------------------------------------------------
(* datetime, date *)

\* datetime.min
DatetimeMin == 0

\* date(y, m, d) as a day count since 0001-01-01
Ordinal(y, m, d) == ((y - 1) * MonthsPerYear + (m - 1)) * DaysPerMonth + (d - 1)

\* datetime(y, m, d) at 00:00:00
Midnight(y, m, d) == Ordinal(y, m, d) * TicksPerDay

\* dt.date() as <<y, m, d>>, also dt.strftime("%Y%m%d")
DateOf(dt) ==
    LET ord == dt \div TicksPerDay
        mi  == ord \div DaysPerMonth
    IN  << (mi \div MonthsPerYear) + 1, (mi % MonthsPerYear) + 1, (ord % DaysPerMonth) + 1 >>

\* dt.time() as ticks since midnight
TimeOf(dt) == dt % TicksPerDay

\* datetime.combine(d, t)
Combine(d, t) == Midnight(d[1], d[2], d[3]) + t

\* datetime.strptime(s, "%Y-%m-%d").date(): <<TRUE, date>> or <<FALSE>> for ValueError
Strptime(s) ==
    IF /\ Len(s) = 3
       /\ s[1] >= 1
       /\ s[2] \in 1..MonthsPerYear
       /\ s[3] \in 1..DaysPerMonth
    THEN <<TRUE, s>>
    ELSE <<FALSE>>

\* month_range(date(year, month, 1)): <<start, end>>
month_range(year, month) ==
    LET next_m == IF month = MonthsPerYear THEN Midnight(year + 1, 1, 1)
                  ELSE Midnight(year, month + 1, 1)
    IN  << Midnight(year, month, 1), next_m - TicksPerSecond >>

----------------------------------------------------------------------------
(* str *)

Digits == <<"0", "1", "2", "3", "4", "5", "6", "7", "8", "9">>

IsDigit(c) == \E i \in 1..10 : Digits[i] = c

DigitVal(c) == (CHOOSE i \in 1..10 : Digits[i] = c) - 1

RECURSIVE DecVal(_)
DecVal(s) == IF s = <<>> THEN 0 ELSE 10 * DecVal(SubSeq(s, 1, Len(s) - 1)) + DigitVal(s[Len(s)])

\* int(s): <<TRUE, n>> or <<FALSE>> for ValueError
IntOf(s) ==
    LET signed == Len(s) > 0 /\ s[1] \in {"-", "+"}
        body   == IF signed THEN Tail(s) ELSE s
    IN  IF Len(body) > 0 /\ \A i \in 1..Len(body) : IsDigit(body[i])
        THEN <<TRUE, IF signed /\ s[1] = "-" THEN 0 - DecVal(body) ELSE DecVal(body)>>
        ELSE <<FALSE>>

\* faulty variant: four digits anywhere in s, consecutive or not
HasNumber_scattered(s) ==
    Cardinality({i \in 1..Len(s) : IsDigit(s[i])}) >= MinDigits

\* re.search(r"\d{4,}", s)
HasNumber(s) ==
    \E i \in 1..Len(s) :
        /\ i + MinDigits - 1 <= Len(s)
        /\ \A j \in i..(i + MinDigits - 1) : IsDigit(s[j])

\* s.upper() on the form values of "richtung"
Upper(s) ==
    CASE s = "ein" -> "EIN"
      [] s = "aus" -> "AUS"
      [] OTHER -> s

----------------------------------------------------------------------------
(* Queries on the store *)

Menge(e, k) ==
    CASE k = "eup"  -> e.menge_eup
      [] k = "gb"   -> e.menge_gb
      [] k = "tmb1" -> e.menge_tmb1
      [] k = "tmb2" -> e.menge_tmb2

Saldo(c, k) ==
    CASE k = "eup"  -> c.saldo_eup
      [] k = "gb"   -> c.saldo_gb
      [] k = "tmb1" -> c.saldo_tmb1
      [] k = "tmb2" -> c.saldo_tmb2

\* Partner.query.get(partner_id)
PartnerExists(partner_id) == \E p \in partners : p.id = partner_id

\* partner.accounts
AccountsOf(partner_id) == {a \in accounts : a.partner_id = partner_id}

\* faulty variant: the filter by partner is dropped
ClosuresOf_any_partner(partner_id) == closures

\* MonthClosure.query.filter_by(partner_id=partner_id)
ClosuresOf(partner_id) == {c \in closures : c.partner_id = partner_id}

\* .order_by(MonthClosure.period_end.desc()).first() over a set of closures;
\* the rows with the greatest period_end (none, or the candidates for first())
LatestOf(cs) == {c \in cs : \A d \in cs : d.period_end <= c.period_end}

\* faulty variant: a closure that ends exactly at dt counts as one before dt
get_last_closure_before_or_at(partner_id, dt) ==
    LatestOf({c \in ClosuresOf(partner_id) : c.period_end <= dt})

get_last_closure_before(partner_id, dt) ==
    LatestOf({c \in ClosuresOf(partner_id) : c.period_end < dt})

collect_partner_entries(partner_id) ==
    {e \in entries : \E a \in AccountsOf(partner_id) : e.account_id = a.id}

\* the multiplier of an entry's direction
Mult(richtung) ==
    CASE richtung = "Eingang"   -> 1
      [] richtung = "Ausgang"   -> -1
      [] richtung = "Korrektur" -> 1
      [] OTHER                  -> 1

Signed(e, k) == Menge(e, k) * Mult(e.richtung)

\* the accumulation "for e in S: acc[k] += me_k * mult"
RECURSIVE SumSigned(_, _)
SumSigned(S, k) ==
    IF S = {} THEN 0
    ELSE LET e == CHOOSE x \in S : TRUE
         IN  Signed(e, k) + SumSigned(S \ {e}, k)

\* the accumulation "for e in S: acc[k] += me_k"
RECURSIVE SumRaw(_, _)
SumRaw(S, k) ==
    IF S = {} THEN 0
    ELSE LET e == CHOOSE x \in S : TRUE
         IN  Menge(e, k) + SumRaw(S \ {e}, k)

\* faulty variant: the sort without reverse=True, oldest row first
RECURSIVE SortNewestFirst_oldest_first(_)
SortNewestFirst_oldest_first(S) ==
    IF S = {} THEN <<>>
    ELSE LET e == CHOOSE x \in S : \A y \in S :
                      \/ x.datum < y.datum
                      \/ x.datum = y.datum /\ x.id <= y.id
         IN  <<e>> \o SortNewestFirst_oldest_first(S \ {e})

\* sorted(..., key=datum, reverse=True): a stable sort of the rows in id order
RECURSIVE SortNewestFirst(_)
SortNewestFirst(S) ==
    IF S = {} THEN <<>>
    ELSE LET e == CHOOSE x \in S : \A y \in S :
                      \/ x.datum > y.datum
                      \/ x.datum = y.datum /\ x.id <= y.id
         IN  <<e>> \o SortNewestFirst(S \ {e})

\* saldo_start and base_date as seeded from last_closure (a set: empty for None)
BaseSaldo(last_closure) ==
    IF last_closure = {} THEN Zero
    ELSE LET c == CHOOSE c \in last_closure : TRUE
         IN  [k \in Kinds |-> Saldo(c, k)]

BaseDate(last_closure) ==
    IF last_closure = {} THEN DatetimeMin
    ELSE (CHOOSE c \in last_closure : TRUE).period_end

\* the rows the loop does not skip: "if e.datum <= base_date: continue"
Counted(all_entries, base_date) == {e \in all_entries : ~(e.datum <= base_date)}

\* "if base_date < e.datum < start_date"
CatchUp(all_entries, base_date, start_date) ==
    {e \in Counted(all_entries, base_date) : base_date < e.datum /\ e.datum < start_date}

\* "elif start_date <= e.datum <= end_date"
InPeriod(all_entries, base_date, start_date, end_date) ==
    {e \in Counted(all_entries, base_date) \ CatchUp(all_entries, base_date, start_date) :
        start_date <= e.datum /\ e.datum <= end_date}

SaldoStart(base, catch_up) == [k \in Kinds |-> base[k] + SumSigned(catch_up, k)]

Movement(in_period) == [k \in Kinds |-> SumSigned(in_period, k)]

\* faulty variant: every row that is no Ausgang counts as Eingang traffic
SumsEingang_with_corrections(in_period) ==
    [k \in Kinds |-> SumRaw({e \in in_period : e.richtung # "Ausgang"}, k)]

SumsEingang(in_period) ==
    [k \in Kinds |-> SumRaw({e \in in_period : e.richtung = "Eingang"}, k)]

SumsAusgang(in_period) ==
    [k \in Kinds |-> SumRaw({e \in in_period : e.richtung = "Ausgang"}, k)]

\* faulty variant: the end balance forgets the start balance
SaldoEnd_movement_only(saldo_start, movement) == [k \in Kinds |-> movement[k]]

SaldoEnd(saldo_start, movement) == [k \in Kinds |-> saldo_start[k] + movement[k]]

calculate_saldo_and_sums(partner_id, start_date, end_date) ==
    LET all_entries  == collect_partner_entries(partner_id)
        last_closure == get_last_closure_before(partner_id, start_date)
        base_date    == BaseDate(last_closure)
        in_period    == InPeriod(all_entries, base_date, start_date, end_date)
        saldo_start  == SaldoStart(BaseSaldo(last_closure),
                                   CatchUp(all_entries, base_date, start_date))
        movement     == Movement(in_period)
    IN  [ entries      |-> SortNewestFirst(in_period),
          saldo_start  |-> saldo_start,
          movement     |-> movement,
          saldo_end    |-> SaldoEnd(saldo_start, movement),
          sums_eingang |-> SumsEingang(in_period),
          sums_ausgang |-> SumsAusgang(in_period) ]

\* index(): the balance of a partner on the overview page
index(partner_id) ==
    [k \in Kinds |-> SumSigned(collect_partner_entries(partner_id), k)]

----------------------------------------------------------------------------
(* Form values the handlers are called with *)

PartnerIds == 1..MaxPartners

NameInputs == {"", "Spedition"}

DocKommentar == <<"d", "o", "c", "-", "1", "0", "0", "2", "3">>

OkKommentar == <<"o", "k">>

\* the forms posted to new_entry, without partner and date
NewEntryForms ==
    { [richtung |-> "EIN",  typ |-> "EUP", menge |-> <<"1", "0">>, kommentar |-> DocKommentar],
      [richtung |-> "aus",  typ |-> "EUP", menge |-> <<"4">>,      kommentar |-> DocKommentar],
      [richtung |-> "aus",  typ |-> "EUP", menge |-> <<"4">>,      kommentar |-> OkKommentar],
      [richtung |-> "KORR", typ |-> "EUP", menge |-> <<"4">>,      kommentar |-> DocKommentar],
      [richtung |-> "EIN",  typ |-> "EUP", menge |-> <<"x">>,      kommentar |-> DocKommentar] }

\* the forms posted to correction_entry, without partner, belegnummer and date
CorrectionForms ==
    { [typ |-> "EUP", menge |-> <<"2">>, kommentar |-> OkKommentar],
      [typ |-> "GB",  menge |-> <<"2">>, kommentar |-> OkKommentar],
      [typ |-> "EUP", menge |-> <<"x">>, kommentar |-> OkKommentar],
      [typ |-> "EUP", menge |-> <<"2">>, kommentar |-> <<>>] }

\* the months of the calendar the forms name
InputMonths == { <<2024, 12>>, <<2025, 1>> }

InputDates == { <<ym[1], ym[2], d>> : ym \in InputMonths, d \in 1..DaysPerMonth }

DatumInputs == InputDates \cup { <<>>, <<2024, 13, 1>> }

\* the clock starts on the last day of the first month, at 00:00:00
NowStart == Combine(<<2024, 12, DaysPerMonth>>, 0)

ClockDates == { DateOf(t) : t \in NowStart..(NowStart + ClockSpan) }

BelegInputs == { <<>> } \cup { d \o <<n>> : d \in ClockDates, n \in 1..MaxEntries }

----------------------------------------------------------------------------
(* new_entry *)

\* faulty variant: the closure created last instead of the one that ends last
last_close_by_id(partner_id) ==
    {c \in ClosuresOf(partner_id) : \A d \in ClosuresOf(partner_id) : d.id <= c.id}

\* MonthClosure.query.filter_by(partner_id=...).order_by(period_end.desc()).first()
last_close(partner_id) == LatestOf(ClosuresOf(partner_id))

\* entry_date <= last_close.period_end
Locked(partner_id, dt) == \E c \in last_close(partner_id) : dt <= c.period_end

\* state["datum"]: datum_str or today
DatumOrToday(datum_str) == IF datum_str = <<>> THEN DateOf(now) ELSE datum_str

\* entry_date = combine(user_date, now.time()); only used when the date parses
EntryDate(datum_str) == Combine(Strptime(DatumOrToday(datum_str))[2], TimeOf(now))

\* mapping.get(richtung_raw.upper())
RichtungDb(richtung_raw) ==
    CASE Upper(richtung_raw) = "EIN" -> "Eingang"
      [] Upper(richtung_raw) = "AUS" -> "Ausgang"
      [] OTHER -> "None"

\* the four quantity fields for (typ, menge)
Verteilung(typ, menge) ==
    [ eup  |-> IF typ = "EUP"  THEN menge ELSE 0,
      gb   |-> IF typ = "GB"   THEN menge ELSE 0,
      tmb1 |-> IF typ = "TMB1" THEN menge ELSE 0,
      tmb2 |-> IF typ = "TMB2" THEN menge ELSE 0 ]

\* Entry.belegnummer.like(today_str + "%")
HasPrefix(belegnummer, today_str) ==
    Len(belegnummer) >= Len(today_str) /\ SubSeq(belegnummer, 1, Len(today_str)) = today_str

\* belegnummer = today_str + "%02d" % count_today
NextBelegnummer ==
    LET today_str   == DateOf(now)
        count_today == Cardinality({e \in entries : HasPrefix(e.belegnummer, today_str)}) + 1
    IN  today_str \o <<count_today>>

\* the answer of new_entry, in the order of its checks
NewEntryResponse(partner_id, richtung_raw, typ, menge_str, kommentar, datum_str) ==
    IF ~PartnerExists(partner_id) THEN "404"
    ELSE IF AccountsOf(partner_id) = {} THEN "NoAccount"
    ELSE IF ~Strptime(DatumOrToday(datum_str))[1] THEN "InvalidDate"
    ELSE IF Locked(partner_id, EntryDate(datum_str)) THEN "ClosureLocked"
    ELSE IF ~IntOf(menge_str)[1] THEN "InvalidQuantity"
    ELSE IF RichtungDb(richtung_raw) \notin {"Eingang", "Ausgang"} THEN "InvalidDirection"
    ELSE IF RichtungDb(richtung_raw) = "Ausgang" /\ ~HasNumber(kommentar)
         THEN "MissingReferenceNumber"
    ELSE "ok"

\* account = partner.accounts[0]
FirstAccount(partner_id) ==
    CHOOSE a \in AccountsOf(partner_id) : \A b \in AccountsOf(partner_id) : a.id <= b.id

\* faulty variant: the new entry starts its voucher group at konto_seq 1
NewEntryRow_seq_one(partner_id, richtung_raw, typ, menge_str, kommentar, datum_str) ==
    LET m == Verteilung(typ, IntOf(menge_str)[2])
    IN  [ id          |-> nextEntryId,
          belegnummer |-> NextBelegnummer,
          datum       |-> EntryDate(datum_str),
          richtung    |-> RichtungDb(richtung_raw),
          menge_eup   |-> m.eup,
          menge_gb    |-> m.gb,
          menge_tmb1  |-> m.tmb1,
          menge_tmb2  |-> m.tmb2,
          kommentar   |-> kommentar,
          konto_seq   |-> 1,
          erfasst_von |-> "Taach",
          account_id  |-> FirstAccount(partner_id).id ]

NewEntryRow(partner_id, richtung_raw, typ, menge_str, kommentar, datum_str) ==
    LET m == Verteilung(typ, IntOf(menge_str)[2])
    IN  [ id          |-> nextEntryId,
          belegnummer |-> NextBelegnummer,
          datum       |-> EntryDate(datum_str),
          richtung    |-> RichtungDb(richtung_raw),
          menge_eup   |-> m.eup,
          menge_gb    |-> m.gb,
          menge_tmb1  |-> m.tmb1,
          menge_tmb2  |-> m.tmb2,
          kommentar   |-> kommentar,
          konto_seq   |-> 0,
          erfasst_von |-> "Taach",
          account_id  |-> FirstAccount(partner_id).id ]

NewEntry(partner_id, richtung_raw, typ, menge_str, kommentar, datum_str) ==
    IF NewEntryResponse(partner_id, richtung_raw, typ, menge_str, kommentar, datum_str) = "ok"
    THEN /\ entries' = entries \cup
                {NewEntryRow(partner_id, richtung_raw, typ, menge_str, kommentar, datum_str)}
         /\ nextEntryId' = nextEntryId + 1
         /\ UNCHANGED <<partners, accounts, closures, nextClosureId, now, inflight>>
    ELSE UNCHANGED vars

----------------------------------------------------------------------------
(* correction_entry *)

\* the rows of the partner with this belegnummer (Entry joined with Account)
BelegRows(partner_id, belegnummer) ==
    {e \in collect_partner_entries(partner_id) : e.belegnummer = belegnummer}

\* faulty variant: the join with Account is dropped, any partner's row counts
Original_any_partner(partner_id, belegnummer) ==
    LET cand == {e \in entries : /\ e.belegnummer = belegnummer
                                  /\ e.richtung \in {"Eingang", "Ausgang"}}
    IN  {e \in cand : \A f \in cand :
             \/ f.konto_seq < e.konto_seq
             \/ f.konto_seq = e.konto_seq /\ f.id <= e.id}

\* .filter(richtung in (Eingang, Ausgang)).order_by(konto_seq.desc(), id.desc()).first()
Original(partner_id, belegnummer) ==
    LET cand == {e \in BelegRows(partner_id, belegnummer) :
                     e.richtung \in {"Eingang", "Ausgang"}}
    IN  {e \in cand : \A f \in cand :
             \/ f.konto_seq < e.konto_seq
             \/ f.konto_seq = e.konto_seq /\ f.id <= e.id}

\* faulty variant: an original dated exactly at period_end is not locked
OriginalLocked_strict(partner_id, belegnummer) ==
    \E o \in Original(partner_id, belegnummer) :
        \E c \in last_close(partner_id) : o.datum < c.period_end

\* original.datum <= last_close.period_end
OriginalLocked(partner_id, belegnummer) ==
    \E o \in Original(partner_id, belegnummer) : Locked(partner_id, o.datum)

\* korr_menge: the sign opposite to the original entry
KorrMenge(original_richtung, menge) ==
    IF original_richtung = "Ausgang" THEN menge ELSE 0 - menge

\* faulty variant: the correction takes the konto_seq of the last row
NextSeq_of_last_row(partner_id, belegnummer) ==
    LET rows == BelegRows(partner_id, belegnummer)
    IN  IF rows = {} THEN 1
        ELSE (CHOOSE e \in rows : \A f \in rows : f.konto_seq <= e.konto_seq).konto_seq

\* next_seq = (last_for_beleg.konto_seq or 0) + 1 if last_for_beleg else 1
NextSeq(partner_id, belegnummer) ==
    LET rows == BelegRows(partner_id, belegnummer)
    IN  IF rows = {} THEN 1
        ELSE (CHOOSE e \in rows : \A f \in rows : f.konto_seq <= e.konto_seq).konto_seq + 1

\* the answer of correction_entry, in the order of its checks
CorrectionResponse(partner_id, belegnummer, datum_str, typ, menge_str, kommentar) ==
    IF ~PartnerExists(partner_id) THEN "404"
    ELSE IF AccountsOf(partner_id) = {} THEN "NoAccount"
    ELSE IF belegnummer = <<>> THEN "MissingBelegnummer"
    ELSE IF kommentar = <<>> THEN "MissingKommentar"
    ELSE IF ~Strptime(DatumOrToday(datum_str))[1] THEN "InvalidDate"
    ELSE IF Original(partner_id, belegnummer) = {} THEN "OriginalEntryNotFound"
    ELSE IF OriginalLocked(partner_id, belegnummer) THEN "ClosureLocked"
    ELSE IF ~IntOf(menge_str)[1] THEN "InvalidQuantity"
    ELSE "ok"

CorrectionRow(partner_id, belegnummer, datum_str, typ, menge_str, kommentar) ==
    LET original == CHOOSE o \in Original(partner_id, belegnummer) : TRUE
        m == Verteilung(typ, KorrMenge(original.richtung, IntOf(menge_str)[2]))
    IN  [ id          |-> nextEntryId,
          belegnummer |-> belegnummer,
          datum       |-> EntryDate(datum_str),
          richtung    |-> "Korrektur",
          menge_eup   |-> m.eup,
          menge_gb    |-> m.gb,
          menge_tmb1  |-> m.tmb1,
          menge_tmb2  |-> m.tmb2,
          kommentar   |-> kommentar,
          konto_seq   |-> NextSeq(partner_id, belegnummer),
          erfasst_von |-> "Taach",
          account_id  |-> FirstAccount(partner_id).id ]

\* faulty variant: the correction takes the place of the original entry
CorrectionEntry_in_place(partner_id, belegnummer, datum_str, typ, menge_str, kommentar) ==
    IF CorrectionResponse(partner_id, belegnummer, datum_str, typ, menge_str, kommentar) = "ok"
    THEN /\ entries' = (entries \ Original(partner_id, belegnummer)) \cup
                {CorrectionRow(partner_id, belegnummer, datum_str, typ, menge_str, kommentar)}
         /\ nextEntryId' = nextEntryId + 1
         /\ UNCHANGED <<partners, accounts, closures, nextClosureId, now, inflight>>
    ELSE UNCHANGED vars

CorrectionEntry(partner_id, belegnummer, datum_str, typ, menge_str, kommentar) ==
    IF CorrectionResponse(partner_id, belegnummer, datum_str, typ, menge_str, kommentar) = "ok"
    THEN /\ entries' = entries \cup
                {CorrectionRow(partner_id, belegnummer, datum_str, typ, menge_str, kommentar)}
         /\ nextEntryId' = nextEntryId + 1
         /\ UNCHANGED <<partners, accounts, closures, nextClosureId, now, inflight>>
    ELSE UNCHANGED vars

----------------------------------------------------------------------------
(* close_month *)

\* faulty variant: the month is compared with the year, so no row ever matches
Existing_wrong_column(partner_id, year, month) ==
    {c \in ClosuresOf(partner_id) : c.year = year /\ c.month = year}

\* MonthClosure.query.filter_by(partner_id, year, month).first()
Existing(partner_id, year, month) ==
    {c \in ClosuresOf(partner_id) : c.year = year /\ c.month = month}

\* faulty variant: a month that ends before a closed month is refused as well
CloseMonthResponse_forward_only(partner_id, year, month) ==
    IF ~PartnerExists(partner_id) THEN "404"
    ELSE IF Existing(partner_id, year, month) # {} THEN "DuplicateClosure"
    ELSE IF \E c \in ClosuresOf(partner_id) : month_range(year, month)[2] < c.period_end
         THEN "DuplicateClosure"
    ELSE "closed"

CloseMonthResponse(partner_id, year, month) ==
    IF ~PartnerExists(partner_id) THEN "404"
    ELSE IF Existing(partner_id, year, month) # {} THEN "DuplicateClosure"
    ELSE "closed"

ClosureRow(partner_id, year, month) ==
    LET period_end == month_range(year, month)[2]
        saldo      == calculate_saldo_and_sums(partner_id, DatetimeMin, period_end).saldo_end
    IN  [ id         |-> nextClosureId,
          partner_id |-> partner_id,
          year       |-> year,
          month      |-> month,
          saldo_eup  |-> saldo["eup"],
          saldo_gb   |-> saldo["gb"],
          saldo_tmb1 |-> saldo["tmb1"],
          saldo_tmb2 |-> saldo["tmb2"],
          period_end |-> period_end ]

\* faulty variant: the closure is stored whatever the duplicate check found
CloseMonth_without_check(partner_id, year, month) ==
    IF PartnerExists(partner_id)
    THEN /\ closures' = closures \cup {ClosureRow(partner_id, year, month)}
         /\ nextClosureId' = nextClosureId + 1
         /\ UNCHANGED <<partners, accounts, entries, nextEntryId, now, inflight>>
    ELSE UNCHANGED vars

CloseMonth(partner_id, year, month) ==
    IF CloseMonthResponse(partner_id, year, month) = "closed"
    THEN /\ closures' = closures \cup {ClosureRow(partner_id, year, month)}
         /\ nextClosureId' = nextClosureId + 1
         /\ UNCHANGED <<partners, accounts, entries, nextEntryId, now, inflight>>
    ELSE UNCHANGED vars

----------------------------------------------------------------------------
(* new_partner, delete_partner *)

NewPartnerResponse(name) == IF name = "" THEN "MissingName" ELSE "created"

\* the database gives the new partner, and its account, a primary key not in use
NewPartner(id, name) ==
    /\ ~PartnerExists(id)
    /\ IF NewPartnerResponse(name) = "created"
       THEN /\ partners' = partners \cup {[id |-> id, name |-> name]}
            /\ accounts' = accounts \cup {[id |-> id, partner_id |-> id]}
            /\ UNCHANGED <<entries, closures, nextEntryId, nextClosureId, now, inflight>>
       ELSE UNCHANGED vars

DeletePartnerResponse(partner_id) == IF ~PartnerExists(partner_id) THEN "404" ELSE "deleted"

\* faulty variant: the month closures of the partner are left in the table
DeletePartner_keeps_closures(partner_id) ==
    IF DeletePartnerResponse(partner_id) = "deleted"
    THEN /\ entries' = entries \ collect_partner_entries(partner_id)
         /\ accounts' = accounts \ AccountsOf(partner_id)
         /\ partners' = {p \in partners : p.id # partner_id}
         /\ UNCHANGED <<closures, nextEntryId, nextClosureId, now, inflight>>
    ELSE UNCHANGED vars

DeletePartner(partner_id) ==
    IF DeletePartnerResponse(partner_id) = "deleted"
    THEN /\ closures' = closures \ ClosuresOf(partner_id)
         /\ entries' = entries \ collect_partner_entries(partner_id)
         /\ accounts' = accounts \ AccountsOf(partner_id)
         /\ partners' = {p \in partners : p.id # partner_id}
         /\ UNCHANGED <<nextEntryId, nextClosureId, now, inflight>>
    ELSE UNCHANGED vars

----------------------------------------------------------------------------
(* The clock and the specification *)

Tick ==
    /\ now < NowStart + ClockSpan
    /\ now' = now + 1
    /\ UNCHANGED <<partners, accounts, entries, closures, nextEntryId, nextClosureId, inflight>>

\* the threads that serve requests
Threads == 1..MaxThreads

\* a thread between requests
Idle == [table |-> "none"]

Init ==
    /\ inflight = [t \in Threads |-> Idle]
    /\ partners = {}
    /\ accounts = {}
    /\ entries = {}
    /\ closures = {}
    /\ nextEntryId = 1
    /\ nextClosureId = 1
    /\ now = NowStart

DoNewEntry ==
    \E partner_id \in PartnerIds, f \in NewEntryForms, datum_str \in DatumInputs :
        /\ nextEntryId <= MaxEntries
        /\ NewEntry(partner_id, f.richtung, f.typ, f.menge, f.kommentar, datum_str)

DoCorrectionEntry ==
    \E partner_id \in PartnerIds, belegnummer \in BelegInputs, datum_str \in DatumInputs,
       f \in CorrectionForms :
        /\ nextEntryId <= MaxEntries
        /\ CorrectionEntry(partner_id, belegnummer, datum_str, f.typ, f.menge, f.kommentar)

DoCloseMonth ==
    \E partner_id \in PartnerIds, ym \in InputMonths :
        /\ nextClosureId <= MaxClosures
        /\ CloseMonth(partner_id, ym[1], ym[2])

DoNewPartner == \E id \in PartnerIds, name \in NameInputs : NewPartner(id, name)

DoDeletePartner == \E partner_id \in PartnerIds : DeletePartner(partner_id)

Next ==
    \/ DoNewEntry
    \/ DoCorrectionEntry
    \/ DoCloseMonth
    \/ DoNewPartner
    \/ DoDeletePartner
    \/ Tick

Spec == Init /\ [][Next]_vars

----------------------------------------------------------------------------
(* The voucher ledger: the same handlers called with today's date and no    *)
(* month closed, for more postings than Spec affords, so that belegnummer   *)
(* groups grow past one correction and postings follow a partner deletion.  *)

\* the forms posted to new_entry, without partner; datum is left empty
VoucherEntryForms ==
    { [richtung |-> "EIN", typ |-> "EUP",  menge |-> <<"1", "0">>, kommentar |-> DocKommentar],
      [richtung |-> "aus", typ |-> "GB",   menge |-> <<"5">>,      kommentar |-> DocKommentar],
      [richtung |-> "EIN", typ |-> "XXL",  menge |-> <<"1", "0">>, kommentar |-> OkKommentar] }

\* the forms posted to correction_entry, without partner and belegnummer
VoucherCorrectionForms ==
    { [typ |-> "GB",  menge |-> <<"2">>, kommentar |-> OkKommentar],
      [typ |-> "XXL", menge |-> <<"2">>, kommentar |-> OkKommentar] }

VoucherBelegInputs == { DateOf(NowStart) \o <<n>> : n \in 1..MaxVouchers }

DoNewEntryToday ==
    \E partner_id \in PartnerIds, f \in VoucherEntryForms :
        /\ nextEntryId <= MaxVouchers
        /\ NewEntry(partner_id, f.richtung, f.typ, f.menge, f.kommentar, <<>>)

DoCorrectionEntryToday ==
    \E partner_id \in PartnerIds, belegnummer \in VoucherBelegInputs,
       f \in VoucherCorrectionForms :
        /\ nextEntryId <= MaxVouchers
        /\ CorrectionEntry(partner_id, belegnummer, <<>>, f.typ, f.menge, f.kommentar)

VoucherNext ==
    \/ DoNewEntryToday
    \/ DoCorrectionEntryToday
    \/ DoNewPartner
    \/ DoDeletePartner

VoucherSpec == Init /\ [][VoucherNext]_vars

----------------------------------------------------------------------------
(* Properties *)

\* the partner ids in the table
ExistingIds == {p.id : p \in partners}

\* the entries of a partner dated on or before t
EntriesUpTo(partner_id, t) == {e \in collect_partner_entries(partner_id) : e.datum <= t}

\* the greatest period_end among the closures of a partner that has one
MaxPeriodEnd(partner_id) ==
    CHOOSE t \in {c.period_end : c \in ClosuresOf(partner_id)} :
        \A c \in ClosuresOf(partner_id) : c.period_end <= t

\* C1: every stored closure holds, per kind, the signed sum of the entries of
\* its partner that are now in the store with datum <= period_end, which is
\* the calculator's saldo_end for (datetime.min, period_end) on the current store.
C1_ClosureEqualsCalculator ==
    \A c \in closures : \A k \in Kinds :
        /\ Saldo(c, k) = SumSigned(EntriesUpTo(c.partner_id, c.period_end), k)
        /\ Saldo(c, k) =
               calculate_saldo_and_sums(c.partner_id, DatetimeMin, c.period_end).saldo_end[k]

\* C2: hard lock: while a partner with a closure exists, no step adds an entry
\* of that partner whose datum is on or before the closure's period_end.
C2_HardLock ==
    [][ \A c \in closures : \A e \in entries' \ entries :
            (\E a \in AccountsOf(c.partner_id) : e.account_id = a.id) => e.datum > c.period_end
      ]_vars

\* the dates a form can carry that strptime accepts (the empty field is today)
ValidDatumInputs == {d \in DatumInputs : Strptime(DatumOrToday(d))[1]}

\* the effective timestamp of a form posted now with the date field d
Effective(d) == Combine(DatumOrToday(d), TimeOf(now))

\* C3: new_entry for an existing partner and a valid date answers ClosureLocked
\* exactly when the partner has a closure and the effective timestamp (date of
\* the form, time of recording) is <= the greatest period_end of its closures,
\* whatever the order the closures were created in; no step stores an Eingang or
\* Ausgang entry that a closure of its partner locks.
C3_EntryLockedIff ==
    /\ [] (\A partner_id \in ExistingIds, f \in NewEntryForms, d \in ValidDatumInputs :
              NewEntryResponse(partner_id, f.richtung, f.typ, f.menge, f.kommentar, d)
                  = "ClosureLocked"
              <=> /\ ClosuresOf(partner_id) # {}
                  /\ Effective(d) <= MaxPeriodEnd(partner_id))
    /\ [][ \A e \in entries' \ entries : \A c \in closures :
              ( /\ e.richtung \in {"Eingang", "Ausgang"}
                /\ \E a \in AccountsOf(c.partner_id) : e.account_id = a.id )
              => e.datum > c.period_end
         ]_vars

\* C3 witness: a partner whose later month was closed before its earlier month,
\* and a form that only the closure created first locks.
C3_Witness ==
    \E c1 \in closures, c2 \in closures, f \in NewEntryForms, d \in InputDates :
        /\ c1.partner_id = c2.partner_id
        /\ c1.id < c2.id
        /\ c2.period_end < c1.period_end
        /\ c2.period_end < Effective(d)
        /\ NewEntryResponse(c1.partner_id, f.richtung, f.typ, f.menge, f.kommentar, d)
               = "ClosureLocked"

C5_ClosedMonthRejectsEntries ==
    \A c \in closures, d \in InputDates, f \in NewEntryForms :
        (d[1] = c.year /\ d[2] = c.month) =>
            NewEntryResponse(c.partner_id, f.richtung, f.typ, f.menge, f.kommentar, d)
                = "ClosureLocked"

\* The calculator compares start_date and end_date with nothing but the datum
\* of the partner's entries and the period_end of the partner's closures, so
\* every period gives the result of one whose start and end are each
\* datetime.min, such an instant, or the tick after such an instant.
Stamps(partner_id) ==
    {e.datum : e \in collect_partner_entries(partner_id)}
        \cup {c.period_end : c \in ClosuresOf(partner_id)}

PeriodTimes(partner_id) ==
    {DatetimeMin} \cup Stamps(partner_id) \cup {t + 1 : t \in Stamps(partner_id)}

Periods(partner_id) == PeriodTimes(partner_id) \X PeriodTimes(partner_id)

\* C6: for every partner and period the calculator returns, per kind,
\* saldo_end = saldo_start + movement, saldo_start being the returned value
\* with the catch-up entries folded in.
C6_SaldoEndIsStartPlusMovement ==
    \A partner_id \in ExistingIds : \A pd \in Periods(partner_id) :
        \A r \in {calculate_saldo_and_sums(partner_id, pd[1], pd[2])} :
            \A k \in Kinds : r.saldo_end[k] = r.saldo_start[k] + r.movement[k]

\* C6 witness: a period that starts after a closure, with an entry in the
\* catch-up zone and an entry in the period, both of non-zero quantity.
C6_Witness ==
    \E partner_id \in ExistingIds : \E pd \in Periods(partner_id) :
        \E r \in {calculate_saldo_and_sums(partner_id, pd[1], pd[2])} :
            LET lc == get_last_closure_before(partner_id, pd[1])
            IN  /\ lc # {}
                /\ \E k \in Kinds : /\ r.saldo_start[k] # BaseSaldo(lc)[k]
                                    /\ r.movement[k] # 0

\* the rows of a returned list
Range(seq) == {seq[i] : i \in DOMAIN seq}

\* C7: saldo_start is the balance of the partner's closure with the greatest
\* period_end < start (0 and datetime.min without one) plus the signed
\* quantities of exactly the entries with base_date < datum < start; those
\* entries are in neither movement nor the returned entries, and entries with
\* datum <= base_date count for nothing.
C7_SaldoStartFromClosureAndCatchUp ==
    \A partner_id \in ExistingIds : \A pd \in Periods(partner_id) :
        \A r \in {calculate_saldo_and_sums(partner_id, pd[1], pd[2])} :
            LET all      == collect_partner_entries(partner_id)
                before   == {c \in ClosuresOf(partner_id) : c.period_end < pd[1]}
                top      == {c \in before : \A d \in before : d.period_end <= c.period_end}
                baseDate == IF before = {} THEN DatetimeMin
                            ELSE (CHOOSE c \in top : TRUE).period_end
                zone     == {e \in all : baseDate < e.datum /\ e.datum < pd[1]}
                window   == {e \in all : /\ baseDate < e.datum
                                         /\ pd[1] <= e.datum
                                         /\ e.datum <= pd[2]}
            IN  /\ Cardinality(top) <= 1
                /\ \A k \in Kinds :
                      /\ r.saldo_start[k] =
                            (IF before = {} THEN 0 ELSE Saldo(CHOOSE c \in top : TRUE, k))
                            + SumSigned(zone, k)
                      /\ r.movement[k] = SumSigned(window, k)
                      /\ r.sums_eingang[k] = SumRaw({e \in window : e.richtung = "Eingang"}, k)
                      /\ r.sums_ausgang[k] = SumRaw({e \in window : e.richtung = "Ausgang"}, k)
                /\ Range(r.entries) = window
                /\ Range(r.entries) \cap zone = {}

\* C7 witness: a period that starts after two closures of the partner, with an
\* entry embedded in the later closure and an entry in the catch-up zone.
C7_Witness ==
    \E partner_id \in ExistingIds, c1 \in closures, c2 \in closures :
      \E pd \in Periods(partner_id) :
        /\ c1.partner_id = partner_id /\ c2.partner_id = partner_id
        /\ c1.period_end < c2.period_end /\ c2.period_end < pd[1]
        /\ \E e \in collect_partner_entries(partner_id) : e.datum <= c2.period_end
        /\ \E e \in collect_partner_entries(partner_id) :
               c2.period_end < e.datum /\ e.datum < pd[1]
        /\ calculate_saldo_and_sums(partner_id, pd[1], pd[2]).saldo_start["eup"] # c2.saldo_eup

\* C8: sums_eingang and sums_ausgang are the unsigned sums of the Eingang and
\* Ausgang entries of the period, corrections count for movement alone, so
\* movement = sums_eingang - sums_ausgang + the stored quantities of the
\* corrections of the period; an Eingang of 10 and an Ausgang of 4 in the period,
\* without closure or correction, give movement 6, sums 10 and 4, saldo_start 0.
C8_DirectionalSums ==
    \A partner_id \in ExistingIds : \A pd \in Periods(partner_id) :
        \A r \in {calculate_saldo_and_sums(partner_id, pd[1], pd[2])} :
            \A rows \in {Range(r.entries)} :
                /\ \A k \in Kinds :
                      /\ r.sums_eingang[k] = SumRaw({e \in rows : e.richtung = "Eingang"}, k)
                      /\ r.sums_ausgang[k] = SumRaw({e \in rows : e.richtung = "Ausgang"}, k)
                      /\ r.movement[k] = r.sums_eingang[k] - r.sums_ausgang[k]
                                         + SumRaw({e \in rows : e.richtung = "Korrektur"}, k)
                /\ ( /\ ClosuresOf(partner_id) = {}
                     /\ Cardinality(collect_partner_entries(partner_id)) = 2
                     /\ \E e \in rows : e.richtung = "Eingang" /\ e.menge_eup = 10
                     /\ \E e \in rows : e.richtung = "Ausgang" /\ e.menge_eup = 4 )
                   => /\ r.saldo_start = Zero
                      /\ r.movement["eup"] = 6
                      /\ r.saldo_end["eup"] = 6
                      /\ r.sums_eingang["eup"] = 10
                      /\ r.sums_ausgang["eup"] = 4

\* C8 witness: a period that holds an Ausgang entry and a correction of it.
C8_Witness ==
    \E partner_id \in ExistingIds : \E pd \in Periods(partner_id) :
        \E r \in {calculate_saldo_and_sums(partner_id, pd[1], pd[2])} :
            /\ \E e \in Range(r.entries) : e.richtung = "Ausgang" /\ e.menge_eup # 0
            /\ \E e \in Range(r.entries) : e.richtung = "Korrektur" /\ e.menge_eup # 0
            /\ r.movement["eup"] # r.sums_eingang["eup"] - r.sums_ausgang["eup"]

Abs(n) == IF n < 0 THEN 0 - n ELSE n

\* C9: an original entry of quantity Q and a correction of quantity C against
\* its belegnummer, in the same kind, together add -Q + C (original Ausgang) or
\* +Q - C (original Eingang) to saldo_end of every period that ends at or after
\* both of them.
C9_PairNetContribution ==
    \A partner_id \in ExistingIds :
        \A o \in collect_partner_entries(partner_id), k \in collect_partner_entries(partner_id) :
            ( /\ o.richtung \in {"Eingang", "Ausgang"}
              /\ k.richtung = "Korrektur"
              /\ k.belegnummer = o.belegnummer ) =>
            \A kind \in Kinds, pd \in Periods(partner_id) :
                ( /\ Menge(o, kind) # 0 /\ Menge(k, kind) # 0
                  /\ o.datum <= pd[2] /\ k.datum <= pd[2] ) =>
                calculate_saldo_and_sums(partner_id, pd[1], pd[2]).saldo_end[kind]
                    - SumSigned(EntriesUpTo(partner_id, pd[2]) \ {o, k}, kind)
                  = IF o.richtung = "Ausgang"
                    THEN (0 - Menge(o, kind)) + Abs(Menge(k, kind))
                    ELSE Menge(o, kind) - Abs(Menge(k, kind))

\* C10: there is at most one closure per (partner, year, month); close_month
\* answers DuplicateClosure exactly for a (partner, year, month) that has one;
\* a step that stores a closure stores one for a month not closed before and
\* leaves the entries and the other closures as they are.
C10_OneClosurePerMonth ==
    /\ [] ( /\ \A c1 \in closures, c2 \in closures :
                  ( /\ c1.partner_id = c2.partner_id
                    /\ c1.year = c2.year
                    /\ c1.month = c2.month ) => c1 = c2
            /\ \A partner_id \in ExistingIds, ym \in InputMonths :
                  CloseMonthResponse(partner_id, ym[1], ym[2]) = "DuplicateClosure"
                  <=> \E c \in closures : /\ c.partner_id = partner_id
                                          /\ c.year = ym[1]
                                          /\ c.month = ym[2] )
    /\ [][ \A c \in closures' \ closures :
              /\ \A d \in closures : ~( /\ d.partner_id = c.partner_id
                                        /\ d.year = c.year
                                        /\ d.month = c.month )
              /\ closures' = closures \cup {c}
              /\ entries' = entries
         ]_vars

\* C10 witness: a partner with two closed months, for each of which a further
\* close_month answers DuplicateClosure.
C10_Witness ==
    \E c1 \in closures, c2 \in closures :
        /\ c1 # c2
        /\ c1.partner_id = c2.partner_id
        /\ CloseMonthResponse(c1.partner_id, c1.year, c1.month) = "DuplicateClosure"
        /\ CloseMonthResponse(c2.partner_id, c2.year, c2.month) = "DuplicateClosure"

----------------------------------------------------------------------------
(* The ledger of the first partner: the handlers of Spec with the same forms, *)
(* no second partner being created.                                         *)

DoNewFirstPartner == \E name \in NameInputs : NewPartner(1, name)

SoloNext ==
    \/ DoNewEntry
    \/ DoCorrectionEntry
    \/ DoCloseMonth
    \/ DoNewFirstPartner
    \/ DoDeletePartner
    \/ Tick

SoloSpec == Init /\ [][SoloNext]_vars

----------------------------------------------------------------------------
(* Overlapping requests.  Each request runs in a thread of the server; the  *)
(* handler's queries and checks are one step and db.session.add with        *)
(* commit is a later step, so that the steps of two requests interleave.    *)
(* No handler takes a lock and no table has a unique constraint besides its *)
(* primary key.                                                             *)

\* close_month up to the computation of the balances: the closure to add
BeginCloseMonth(t, partner_id, year, month) ==
    /\ inflight[t] = Idle
    /\ CloseMonthResponse(partner_id, year, month) = "closed"
    /\ inflight' = [inflight EXCEPT ![t] =
                       [table |-> "month_closure", row |-> ClosureRow(partner_id, year, month)]]
    /\ UNCHANGED <<partners, accounts, entries, closures, nextEntryId, nextClosureId, now>>

\* new_entry up to the belegnummer: the entry to add
BeginNewEntry(t, partner_id, richtung_raw, typ, menge_str, kommentar, datum_str) ==
    /\ inflight[t] = Idle
    /\ NewEntryResponse(partner_id, richtung_raw, typ, menge_str, kommentar, datum_str) = "ok"
    /\ inflight' = [inflight EXCEPT ![t] =
                       [table |-> "entry",
                        row   |-> NewEntryRow(partner_id, richtung_raw, typ, menge_str,
                                              kommentar, datum_str)]]
    /\ UNCHANGED <<partners, accounts, entries, closures, nextEntryId, nextClosureId, now>>

\* db.session.add(row); db.session.commit(): the table gives the primary key
Commit(t) ==
    /\ inflight[t] # Idle
    /\ inflight' = [inflight EXCEPT ![t] = Idle]
    /\ IF inflight[t].table = "entry"
       THEN /\ entries' = entries \cup {[inflight[t].row EXCEPT !.id = nextEntryId]}
            /\ nextEntryId' = nextEntryId + 1
            /\ UNCHANGED <<closures, nextClosureId>>
       ELSE /\ closures' = closures \cup {[inflight[t].row EXCEPT !.id = nextClosureId]}
            /\ nextClosureId' = nextClosureId + 1
            /\ UNCHANGED <<entries, nextEntryId>>
    /\ UNCHANGED <<partners, accounts, now>>

\* the rows of a table that threads are about to add
Pending(table) == {t \in Threads : inflight[t] # Idle /\ inflight[t].table = table}

DoBeginCloseMonth ==
    \E t \in Threads, partner_id \in PartnerIds, ym \in InputMonths :
        /\ nextClosureId + Cardinality(Pending("month_closure")) <= MaxClosures
        /\ BeginCloseMonth(t, partner_id, ym[1], ym[2])

DoBeginNewEntry ==
    \E t \in Threads, partner_id \in PartnerIds, f \in NewEntryForms, datum_str \in DatumInputs :
        /\ nextEntryId + Cardinality(Pending("entry")) <= MaxEntries
        /\ BeginNewEntry(t, partner_id, f.richtung, f.typ, f.menge, f.kommentar, datum_str)

DoCommit == \E t \in Threads : Commit(t)

OverlapNext ==
    \/ DoBeginCloseMonth
    \/ DoBeginNewEntry
    \/ DoCommit
    \/ DoNewPartner

OverlapSpec == Init /\ [][OverlapNext]_vars

----------------------------------------------------------------------------
(* Vouchers: belegnummer and konto_seq *)

\* the belegnummer values in use for a partner
BelegnummernOf(partner_id) == {e.belegnummer : e \in collect_partner_entries(partner_id)}

\* C11: for every partner and belegnummer, the konto_seq values of the group
\* are 0..n without gap or repetition, 0 is held by the Eingang/Ausgang entry
\* and the corrections carry 1..n in the order of their creation.
C11_KontoSeqContiguous ==
    \A partner_id \in ExistingIds : \A b \in BelegnummernOf(partner_id) :
        \A rows \in {BelegRows(partner_id, b)} :
            /\ {e.konto_seq : e \in rows} = 0..(Cardinality(rows) - 1)
            /\ \A e \in rows : e.konto_seq = 0 <=> e.richtung \in {"Eingang", "Ausgang"}
            /\ \A e \in rows, f \in rows : e.id < f.id => e.konto_seq < f.konto_seq

\* C12: no two entries with konto_seq 0 in the store share a belegnummer.
C12_StandardBelegnummerUnique ==
    \A e \in entries, f \in entries :
        (e.konto_seq = 0 /\ f.konto_seq = 0 /\ e.belegnummer = f.belegnummer) => e = f

\* the quantity field a typ names
FieldOf(typ) ==
    CASE typ = "EUP"  -> {"eup"}
      [] typ = "GB"   -> {"gb"}
      [] typ = "TMB1" -> {"tmb1"}
      [] typ = "TMB2" -> {"tmb2"}
      [] OTHER        -> {}

\* C13: the row an accepted new_entry or correction_entry call stores holds the
\* quantity, signed for a correction, in the field its typ names and 0 in the
\* other three, for every typ posted.
C13_QuantityInNamedField ==
    /\ \A partner_id \in PartnerIds, f \in VoucherEntryForms :
          NewEntryResponse(partner_id, f.richtung, f.typ, f.menge, f.kommentar, <<>>) = "ok" =>
              \A row \in {NewEntryRow(partner_id, f.richtung, f.typ, f.menge, f.kommentar, <<>>)} :
                  \E k \in FieldOf(f.typ) :
                      /\ Menge(row, k) = IntOf(f.menge)[2]
                      /\ \A j \in Kinds \ {k} : Menge(row, j) = 0
    /\ \A partner_id \in PartnerIds, b \in VoucherBelegInputs, f \in VoucherCorrectionForms :
          CorrectionResponse(partner_id, b, <<>>, f.typ, f.menge, f.kommentar) = "ok" =>
              \A row \in {CorrectionRow(partner_id, b, <<>>, f.typ, f.menge, f.kommentar)} :
                  \E k \in FieldOf(f.typ) :
                      /\ Abs(Menge(row, k)) = IntOf(f.menge)[2]
                      /\ \A j \in Kinds \ {k} : Menge(row, j) = 0

\* the Eingang/Ausgang entries on the accounts of a partner with a belegnummer
Candidates(partner_id, b) ==
    {e \in entries : /\ \E a \in accounts : a.partner_id = partner_id /\ a.id = e.account_id
                     /\ e.belegnummer = b
                     /\ e.richtung \in {"Eingang", "Ausgang"}}

\* the calls of correction_entry that pass the checks made before the lookup
LookupCalls ==
    {c \in ExistingIds \X VoucherBelegInputs \X VoucherCorrectionForms :
        c[3].kommentar # <<>>}

\* C14: a correction_entry call that reaches the lookup answers
\* OriginalEntryNotFound exactly when the partner has no Eingang/Ausgang entry
\* with the belegnummer, whatever other partners or corrections carry it; an
\* accepted call takes its sign from the candidate of highest konto_seq, then
\* highest id; every correction a step stores has such a candidate before it.
C14_OriginalLookup ==
    /\ [] \A c \in LookupCalls :
            \A r \in {CorrectionResponse(c[1], c[2], <<>>, c[3].typ, c[3].menge, c[3].kommentar)} :
                /\ r = "OriginalEntryNotFound" <=> Candidates(c[1], c[2]) = {}
                /\ (r = "ok" /\ c[3].typ = "GB") =>
                      \E o \in Candidates(c[1], c[2]) :
                          /\ \A f \in Candidates(c[1], c[2]) :
                                \/ f.konto_seq < o.konto_seq
                                \/ f.konto_seq = o.konto_seq /\ f.id <= o.id
                          /\ CorrectionRow(c[1], c[2], <<>>, c[3].typ, c[3].menge, c[3].kommentar).menge_gb
                                = IF o.richtung = "Ausgang" THEN IntOf(c[3].menge)[2]
                                  ELSE 0 - IntOf(c[3].menge)[2]
    /\ [][ \A k \in entries' \ entries :
              k.richtung = "Korrektur" =>
                  \E o \in entries : /\ o.account_id = k.account_id
                                     /\ o.belegnummer = k.belegnummer
                                     /\ o.richtung \in {"Eingang", "Ausgang"}
         ]_vars

\* C14 witness: a partner with two candidates of different direction for one
\* belegnummer and a correction stored against it, next to a partner that has
\* no entry with that belegnummer and is answered OriginalEntryNotFound.
C14_Witness ==
    \E k \in entries, o1 \in entries, o2 \in entries, p \in ExistingIds :
        /\ k.richtung = "Korrektur"
        /\ o1.richtung = "Eingang" /\ o2.richtung = "Ausgang"
        /\ o1.account_id = k.account_id /\ o2.account_id = k.account_id
        /\ o1.belegnummer = k.belegnummer /\ o2.belegnummer = k.belegnummer
        /\ o1.id < k.id /\ o2.id < k.id
        /\ collect_partner_entries(p) = {}
        /\ \A f \in VoucherCorrectionForms :
              CorrectionResponse(p, k.belegnummer, <<>>, f.typ, f.menge, f.kommentar)
                  = "OriginalEntryNotFound"

----------------------------------------------------------------------------
(* Validation of new_entry *)

\* the comments tried: every string of up to MaxKommentar characters over a
\* digit and a letter
KommentarProbes ==
    UNION { [1..n -> {"7", "x"}] : n \in 0..MaxKommentar }

\* the values of the form field richtung tried
RichtungProbes == {"EIN", "ein", "AUS", "aus", "KORR", ""}

\* s holds a run of at least four consecutive digits
DigitRun(s) ==
    \E i \in 1..Len(s) :
        /\ i + 3 <= Len(s)
        /\ \A k \in i..(i + 3) : s[k] \in {"0", "1", "2", "3", "4", "5", "6", "7", "8", "9"}

\* the test of the comment finds exactly the comments with such a run
ReferenceTestExact == \A kommentar \in KommentarProbes : HasNumber(kommentar) <=> DigitRun(kommentar)

\* the comments posted: with a run of five digits, with none, with four
\* digits in two runs, and empty
KommentarInputs == {DocKommentar, OkKommentar, <<"7", "7", "x", "7", "7">>, <<>>}

\* C15: a new_entry call with an accepted date and quantity answers
\* InvalidDirection when richtung is neither EIN nor AUS, MissingReferenceNumber
\* when it is AUS and the comment holds no run of four digits, and is accepted
\* otherwise, an Eingang with any comment; every Ausgang entry in the store has
\* a comment with such a run.
C15_AusgangNeedsReference ==
    /\ ReferenceTestExact
    /\ \A partner_id \in ExistingIds, richtung_raw \in RichtungProbes, kommentar \in KommentarInputs :
          ~Locked(partner_id, EntryDate(<<>>)) =>
              NewEntryResponse(partner_id, richtung_raw, "EUP", <<"4">>, kommentar, <<>>)
                = CASE richtung_raw \in {"EIN", "ein"} -> "ok"
                    [] richtung_raw \in {"AUS", "aus"} ->
                          IF DigitRun(kommentar) THEN "ok" ELSE "MissingReferenceNumber"
                    [] OTHER -> "InvalidDirection"
    /\ \A e \in entries : e.richtung = "Ausgang" => DigitRun(e.kommentar)

\* C15 witness: an Ausgang entry is stored, and a further Ausgang call of its
\* partner is refused for a comment with four digits that are not consecutive.
C15_Witness ==
    \E e \in entries, p \in ExistingIds :
        /\ e.richtung = "Ausgang"
        /\ FirstAccount(p).id = e.account_id
        /\ NewEntryResponse(p, "aus", "EUP", <<"4">>, <<"7", "7", "x", "7", "7">>, <<>>)
              = "MissingReferenceNumber"
        /\ NewEntryResponse(p, "ein", "EUP", <<"4">>, <<"x">>, <<>>) = "ok"

----------------------------------------------------------------------------
(* Failing calls and the store *)

\* the calls posted to the three write handlers
NewEntryCalls == PartnerIds \X NewEntryForms \X DatumInputs

CorrectionCalls == PartnerIds \X BelegInputs \X DatumInputs \X CorrectionForms

CloseMonthCalls == PartnerIds \X InputMonths

NewEntryAnswer(c) ==
    NewEntryResponse(c[1], c[2].richtung, c[2].typ, c[2].menge, c[2].kommentar, c[3])

CorrectionAnswer(c) ==
    CorrectionResponse(c[1], c[2], c[3], c[4].typ, c[4].menge, c[4].kommentar)

\* C16: a step that changes the entries or the closures is the step of no
\* call that fails: every call of new_entry or correction_entry answered with
\* anything but acceptance, and every close_month call answered other than
\* with a new closure, leaves entries and closures as they were.
C16_FailureLeavesStore ==
    [][ \/ entries' = entries /\ closures' = closures
        \/ /\ \A c \in NewEntryCalls :
                 NewEntryAnswer(c) # "ok" =>
                     ~NewEntry(c[1], c[2].richtung, c[2].typ, c[2].menge, c[2].kommentar, c[3])
           /\ \A c \in CorrectionCalls :
                 CorrectionAnswer(c) # "ok" =>
                     ~CorrectionEntry(c[1], c[2], c[3], c[4].typ, c[4].menge, c[4].kommentar)
           /\ \A c \in CloseMonthCalls :
                 CloseMonthResponse(c[1], c[2][1], c[2][2]) # "closed" =>
                     ~CloseMonth(c[1], c[2][1], c[2][2])
      ]_vars

\* C16 witness: a store with an entry locked by a closure in which the failures
\* of new_entry, the failures of correction_entry up to the lock and the
\* failure of close_month are each the answer to some call.
C16_Witness ==
    /\ entries # {} /\ closures # {}
    /\ \A r \in {"InvalidDate", "ClosureLocked", "InvalidQuantity", "InvalidDirection",
                 "MissingReferenceNumber"} :
          \E c \in NewEntryCalls : NewEntryAnswer(c) = r
    /\ \A r \in {"MissingBelegnummer", "MissingKommentar", "InvalidDate",
                 "OriginalEntryNotFound", "ClosureLocked"} :
          \E c \in CorrectionCalls : CorrectionAnswer(c) = r
    /\ \E c \in CloseMonthCalls : CloseMonthResponse(c[1], c[2][1], c[2][2]) = "DuplicateClosure"

----------------------------------------------------------------------------
(* Append-only tables *)

\* the partner that owns an entry, through its account
OwnerOf(e) == {a.partner_id : a \in {b \in accounts : b.id = e.account_id}}

\* C17: a step removes an entry or a closure only together with its partner;
\* every other row stays in its table as it is, a new row takes a primary key
\* not in use, and no row is left without its partner.
C17_AppendOnly ==
    /\ [][ /\ \A e \in entries \ entries' :
                 \A p \in OwnerOf(e) : PartnerExists(p) /\ ~\E q \in partners' : q.id = p
           /\ \A c \in closures \ closures' :
                 PartnerExists(c.partner_id) /\ ~\E q \in partners' : q.id = c.partner_id
           /\ \A e \in entries' \ entries : \A f \in entries : f.id # e.id
           /\ \A c \in closures' \ closures : \A d \in closures : d.id # c.id
         ]_vars
    /\ [] ( /\ \A e \in entries : OwnerOf(e) # {} /\ \A p \in OwnerOf(e) : PartnerExists(p)
            /\ \A c \in closures : PartnerExists(c.partner_id) )

\* C17 witness: an entry and a closure of a partner are still in the store
\* after a correction of that entry and a later closure were stored.
C17_Witness ==
    \E o \in entries, k \in entries, c \in closures, d \in closures :
        /\ o.konto_seq = 0 /\ k.richtung = "Korrektur"
        /\ k.belegnummer = o.belegnummer /\ k.account_id = o.account_id
        /\ o.id < k.id
        /\ c.partner_id = d.partner_id /\ c.id < d.id
        /\ OwnerOf(o) = {c.partner_id}

----------------------------------------------------------------------------
(* Overlapping requests *)

\* C18: with the duplicate check and the insert of close_month as separate
\* steps of overlapping requests, no (partner, year, month) has two closures.
C18_OneClosureUnderOverlap ==
    \A c \in closures, d \in closures :
        c.id # d.id => <<c.partner_id, c.year, c.month>> # <<d.partner_id, d.year, d.month>>

\* C19: with the count of today's belegnummers and the insert of new_entry as
\* separate steps of overlapping requests, two stored entries of new_entry
\* have different belegnummers.
C19_DistinctBelegnummerUnderOverlap ==
    \A e \in entries, f \in entries :
        (e.id # f.id /\ e.konto_seq = 0 /\ f.konto_seq = 0) => e.belegnummer # f.belegnummer

----------------------------------------------------------------------------
(* Entries of a period *)

\* C20: the entries the calculator returns for a period are exactly the
\* partner's entries with start <= datum <= end and datum > base_date, each
\* once, in order of non-increasing datum; when end < start the list is empty,
\* movement is 0 for every kind and saldo_end = saldo_start.
C20_EntriesInPeriod ==
    \A partner_id \in ExistingIds : \A pd \in Periods(partner_id) :
        \A r \in {calculate_saldo_and_sums(partner_id, pd[1], pd[2])} :
            LET base_date == BaseDate(get_last_closure_before(partner_id, pd[1]))
                expected  == {e \in entries :
                                 /\ \E a \in AccountsOf(partner_id) : e.account_id = a.id
                                 /\ pd[1] <= e.datum /\ e.datum <= pd[2]
                                 /\ e.datum > base_date}
            IN  /\ {r.entries[i] : i \in DOMAIN r.entries} = expected
                /\ Len(r.entries) = Cardinality(expected)
                /\ \A i \in DOMAIN r.entries, j \in DOMAIN r.entries :
                      i < j => r.entries[i].datum >= r.entries[j].datum
                /\ pd[2] < pd[1] =>
                      /\ r.entries = <<>>
                      /\ \A k \in Kinds : /\ r.movement[k] = 0
                                          /\ r.saldo_end[k] = r.saldo_start[k]

\* C20 witness: a partner with a period whose list holds two entries, the
\* later-stored one first because its datum is the newer one, and with an
\* inverted period that has an entry between its end and its start.
C20_Witness ==
    \E partner_id \in ExistingIds :
        /\ \E pd \in Periods(partner_id) :
              \E r \in {calculate_saldo_and_sums(partner_id, pd[1], pd[2])} :
                  /\ Len(r.entries) = 2
                  /\ r.entries[1].datum > r.entries[2].datum
                  /\ r.entries[1].id > r.entries[2].id
        /\ \E pd \in Periods(partner_id) :
              /\ pd[2] < pd[1]
              /\ \E e \in collect_partner_entries(partner_id) :
                    pd[2] <= e.datum /\ e.datum <= pd[1] /\ Menge(e, "eup") # 0

----------------------------------------------------------------------------
(* Frame of the write handlers *)

\* C21: the step of an accepted new_entry call adds exactly one entry, an
\* Eingang or Ausgang with konto_seq 0 on the partner's first account; the
\* step of an accepted correction_entry call adds exactly one entry, a
\* Korrektur with the belegnummer posted, which is the original's; both leave
\* every other entry and every closure as they were.  The step of an accepted
\* close_month call adds exactly one closure, of that partner, and leaves all
\* entries and all other closures as they were.
C21_WriteFrame ==
    [][ /\ \A c \in NewEntryCalls :
              ( /\ NewEntryAnswer(c) = "ok"
                /\ NewEntry(c[1], c[2].richtung, c[2].typ, c[2].menge, c[2].kommentar, c[3]) )
              => /\ closures' = closures
                 /\ entries \subseteq entries'
                 /\ Cardinality(entries' \ entries) = 1
                 /\ \A e \in entries' \ entries :
                       /\ e.richtung \in {"Eingang", "Ausgang"}
                       /\ e.konto_seq = 0
                       /\ \A a \in AccountsOf(c[1]) : e.account_id <= a.id
                       /\ OwnerOf(e) = {c[1]}
        /\ \A c \in CorrectionCalls :
              ( /\ CorrectionAnswer(c) = "ok"
                /\ CorrectionEntry(c[1], c[2], c[3], c[4].typ, c[4].menge, c[4].kommentar) )
              => /\ closures' = closures
                 /\ entries \subseteq entries'
                 /\ Cardinality(entries' \ entries) = 1
                 /\ \A e \in entries' \ entries :
                       /\ e.richtung = "Korrektur"
                       /\ e.belegnummer = c[2]
                       /\ \E o \in entries : /\ o.belegnummer = e.belegnummer
                                             /\ o.richtung \in {"Eingang", "Ausgang"}
                                             /\ OwnerOf(o) = {c[1]}
        /\ \A c \in CloseMonthCalls :
              ( /\ CloseMonthResponse(c[1], c[2][1], c[2][2]) = "closed"
                /\ CloseMonth(c[1], c[2][1], c[2][2]) )
              => /\ entries' = entries
                 /\ closures \subseteq closures'
                 /\ Cardinality(closures' \ closures) = 1
                 /\ \A d \in closures' \ closures :
                       d.partner_id = c[1] /\ d.year = c[2][1] /\ d.month = c[2][2]
      ]_vars

\* C21 witness: a partner has an entry, a later correction of that entry and
\* a closure, each stored by an accepted call.
C21_Witness ==
    \E o \in entries, k \in entries, c \in closures :
        /\ o.konto_seq = 0 /\ o.richtung \in {"Eingang", "Ausgang"}
        /\ k.richtung = "Korrektur" /\ k.belegnummer = o.belegnummer
        /\ OwnerOf(o) = {c.partner_id} /\ OwnerOf(k) = {c.partner_id}
        /\ o.id < k.id
        /\ k.account_id = FirstAccount(c.partner_id).id

----------------------------------------------------------------------------
(* Closing any month *)

\* C22: close_month for an existing partner is refused only for a month the
\* partner has a closure of: a month before a closed month, the current month
\* and a future month are closed alike, and the closure stored holds, per kind,
\* the signed sum of all entries of the partner dated up to the month's end.
\* While a partner has a closure whose end lies in the future, every new_entry
\* call for the partner with a valid date and an effective timestamp up to
\* that end is answered ClosureLocked.
C22_CloseAnyMonth ==
    /\ [] ( /\ \A partner_id \in ExistingIds, ym \in InputMonths :
                  CloseMonthResponse(partner_id, ym[1], ym[2]) =
                      IF \E c \in ClosuresOf(partner_id) : c.year = ym[1] /\ c.month = ym[2]
                      THEN "DuplicateClosure" ELSE "closed"
            /\ \A c \in closures : \A call \in NewEntryCalls :
                  ( /\ call[1] = c.partner_id
                    /\ now < c.period_end
                    /\ call[3] \in ValidDatumInputs
                    /\ Effective(call[3]) <= c.period_end )
                  => NewEntryAnswer(call) = "ClosureLocked" )
    /\ [][ \A call \in CloseMonthCalls :
              ( /\ CloseMonthResponse(call[1], call[2][1], call[2][2]) = "closed"
                /\ CloseMonth(call[1], call[2][1], call[2][2]) )
              => \E c \in closures' \ closures :
                    /\ c.partner_id = call[1]
                    /\ c.period_end = month_range(call[2][1], call[2][2])[2]
                    /\ \A k \in Kinds :
                          Saldo(c, k) = SumSigned(EntriesUpTo(call[1], c.period_end), k)
         ]_vars

\* C22 witness: a partner with an entry of non-zero quantity closed the future
\* month first and the current month second, the second closure holding that
\* quantity, and a posting dated in the future month is answered ClosureLocked.
C22_Witness ==
    \E c1 \in closures, c2 \in closures, call \in NewEntryCalls :
        /\ c1.partner_id = c2.partner_id /\ c1.id < c2.id
        /\ c2.period_end < c1.period_end
        /\ now <= c2.period_end
        /\ \E k \in Kinds : Saldo(c2, k) # 0
        /\ call[1] = c1.partner_id /\ call[3] \in ValidDatumInputs
        /\ c2.period_end < Effective(call[3]) /\ Effective(call[3]) <= c1.period_end
        /\ NewEntryAnswer(call) = "ClosureLocked"

----------------------------------------------------------------------------
(* A posting that overlaps a closing *)

\* C23: with the lock check and the insert of new_entry, and the balance
\* computation and the insert of close_month, as separate steps of overlapping
\* requests, every stored closure accounts for every entry of its partner
\* dated on or before its period_end: per kind, the stored balance is the
\* signed sum of those entries.
C23_NoEntrySlipsIntoClosedPeriod ==
    \A c \in closures :
        LET covered == {e \in entries : OwnerOf(e) = {c.partner_id} /\ e.datum <= c.period_end}
        IN  \A k \in Kinds : SumSigned(covered, k) = Saldo(c, k)

----------------------------------------------------------------------------
(* Deleting a partner *)

\* C24: the step of delete_partner for an existing partner removes the partner
\* with all of its accounts, entries and closures, so that afterwards no
\* account, entry or closure refers to it, and leaves the accounts, entries
\* and closures of every other partner as they were; in every state each
\* account, entry and closure refers to a partner in the store.
C24_DeleteCascades ==
    /\ [][ \A partner_id \in PartnerIds :
              ( /\ DeletePartnerResponse(partner_id) = "deleted"
                /\ DeletePartner(partner_id) )
              => /\ \A p \in partners' : p.id # partner_id
                 /\ \A a \in accounts' : a.partner_id # partner_id
                 /\ \A c \in closures' : c.partner_id # partner_id
                 /\ \A e \in entries' : \A a \in AccountsOf(partner_id) : e.account_id # a.id
                 /\ partners' = {p \in partners : p.id # partner_id}
                 /\ accounts' = {a \in accounts : a.partner_id # partner_id}
                 /\ closures' = {c \in closures : c.partner_id # partner_id}
                 /\ entries' = {e \in entries : OwnerOf(e) # {partner_id}}
         ]_vars
    /\ [] ( /\ \A a \in accounts : PartnerExists(a.partner_id)
            /\ \A c \in closures : PartnerExists(c.partner_id)
            /\ \A e \in entries : \E a \in accounts : a.id = e.account_id )

\* C24 witness: a partner that had an entry and a closure was deleted while
\* the other partner keeps its entry and its closure.
C24_Witness ==
    \E p \in PartnerIds, q \in ExistingIds :
        /\ ~PartnerExists(p)
        /\ \E e \in entries : OwnerOf(e) = {q}
        /\ \E c \in closures : c.partner_id = q
        /\ Cardinality(entries) < nextEntryId - 1
        /\ Cardinality(closures) < nextClosureId - 1

----------------------------------------------------------------------------
(* Closures as a shortcut *)

\* the calculator's loop run with last_closure = None for every period
calculate_without_closures(partner_id, start_date, end_date) ==
    LET all_entries == collect_partner_entries(partner_id)
        in_period   == InPeriod(all_entries, DatetimeMin, start_date, end_date)
        saldo_start == SaldoStart(Zero, CatchUp(all_entries, DatetimeMin, start_date))
        movement    == Movement(in_period)
    IN  [ entries      |-> SortNewestFirst(in_period),
          saldo_start  |-> saldo_start,
          movement     |-> movement,
          saldo_end    |-> SaldoEnd(saldo_start, movement),
          sums_eingang |-> SumsEingang(in_period),
          sums_ausgang |-> SumsAusgang(in_period) ]

\* C25: for every partner and period the calculator's result is the result of
\* the same computation with all closures ignored, and its saldo_start is the
\* signed sum of all entries of the partner with datum < start.
C25_ClosuresArePureShortcut ==
    \A partner_id \in ExistingIds : \A pd \in Periods(partner_id) :
        /\ calculate_saldo_and_sums(partner_id, pd[1], pd[2])
              = calculate_without_closures(partner_id, pd[1], pd[2])
        /\ \A k \in Kinds :
              calculate_saldo_and_sums(partner_id, pd[1], pd[2]).saldo_start[k]
                 = SumSigned({e \in collect_partner_entries(partner_id) : e.datum < pd[1]}, k)

----------------------------------------------------------------------------
(* The overview page *)

\* C26: for every partner the balance of the overview page is, per kind, the
\* saldo_end the calculator returns for any period whose end is not before
\* the datum of any entry of the partner.
C26_OverviewEqualsSaldoEnd ==
    \A partner_id \in ExistingIds : \A pd \in Periods(partner_id) :
        (\A e \in collect_partner_entries(partner_id) : e.datum <= pd[2])
        => \A k \in Kinds :
              index(partner_id)[k] = calculate_saldo_and_sums(partner_id, pd[1], pd[2]).saldo_end[k]

----------------------------------------------------------------------------
(* Partner isolation *)

\* the three write handlers on a fixed day, for partners that stay
LedgerNext ==
    \/ DoNewEntry
    \/ DoCorrectionEntry
    \/ DoCloseMonth
    \/ DoNewPartner

LedgerSpec == Init /\ [][LedgerNext]_vars

\* what a partner can observe: the calculator's result for each of its
\* periods, its closures, and the answer to each call of the three write
\* handlers made for it
ViewOf(partner_id) ==
    [ balances |-> [pd \in Periods(partner_id) |->
                        calculate_saldo_and_sums(partner_id, pd[1], pd[2])],
      closures |-> ClosuresOf(partner_id),
      new      |-> [c \in {d \in NewEntryCalls : d[1] = partner_id} |-> NewEntryAnswer(c)],
      corr     |-> [c \in {d \in CorrectionCalls : d[1] = partner_id} |-> CorrectionAnswer(c)],
      close    |-> [c \in {d \in CloseMonthCalls : d[1] = partner_id} |->
                        CloseMonthResponse(c[1], c[2][1], c[2][2])] ]

\* C27: a step of new_entry, correction_entry or close_month that stores a
\* row for one partner leaves, for every other partner, each calculator
\* result, the closures, and the answer (accepted or which rejection) of
\* every new_entry, correction_entry and close_month call unchanged.
C27_PartnerIsolation ==
    [][ ( /\ entries' # entries \/ closures' # closures
          /\ partners' = partners )
        => \A b \in ExistingIds :
              ( /\ \A e \in entries' \ entries : e.account_id # FirstAccount(b).id
                /\ \A c \in closures' \ closures : c.partner_id # b )
              => ViewOf(b)' = ViewOf(b)
      ]_vars

\* C27 witness: two partners, each with an entry and a closure; the rows of
\* one were stored while the other already had its entry and its closure.
C27_Witness ==
    \E eb \in entries, ea \in entries, cb \in closures, ca \in closures :
        /\ OwnerOf(eb) = {cb.partner_id}
        /\ OwnerOf(ea) = {ca.partner_id}
        /\ ca.partner_id # cb.partner_id
        /\ eb.id < ea.id /\ cb.id < ca.id

----------------------------------------------------------------------------
(* The lock over time: postings of today, closings, deletions and the clock *)

LockNext ==
    \/ DoNewEntryToday
    \/ DoCloseMonth
    \/ DoNewPartner
    \/ DoDeletePartner
    \/ Tick

LockSpec == Init /\ [][LockNext]_vars

\* the correction posted for a voucher with today's date and a valid form
CorrectionProbe(partner_id, belegnummer) ==
    CorrectionResponse(partner_id, belegnummer, <<>>, "EUP", <<"2">>, OkKommentar)

----------------------------------------------------------------------------
(* Well-formed entries *)

\* C29: every entry in the store has a datum later than datetime.min, has the
\* direction Eingang, Ausgang or Korrektur, has konto_seq 0 exactly when its
\* direction is Eingang or Ausgang, and konto_seq >= 1 when it is Korrektur;
\* so the calculator skips no entry for a missing datum and uses the
\* multiplier of an unknown direction for none.
C29_EntriesWellFormed ==
    \A e \in entries :
        /\ e.datum \in Int /\ e.datum > DatetimeMin
        /\ e.richtung \in {"Eingang", "Ausgang", "Korrektur"}
        /\ e.konto_seq = 0 <=> e.richtung \in {"Eingang", "Ausgang"}
        /\ e.richtung = "Korrektur" => e.konto_seq >= 1
        /\ Counted({e}, DatetimeMin) = {e}

\* C29 witness: the store holds an Eingang, an Ausgang and two corrections of
\* one voucher, the second with konto_seq 2.
C29_Witness ==
    \E e1 \in entries, e2 \in entries, k1 \in entries, k2 \in entries :
        /\ e1.richtung = "Eingang" /\ e2.richtung = "Ausgang"
        /\ k1.richtung = "Korrektur" /\ k2.richtung = "Korrektur"
        /\ k1.belegnummer = k2.belegnummer /\ k1.account_id = k2.account_id
        /\ k1.konto_seq = 1 /\ k2.konto_seq = 2

====
